---- MODULE Spec2Model ----
(***************************************************************************)
(* A model of learn_bpe.py: the BPE merge-learning loop with its           *)
(* incrementally updated pair statistics, inverted index and pruning.      *)
(*                                                                         *)
(* Symbols are strings, a pair is a 2-tuple of symbols, a word is a        *)
(* sequence of symbols.  Python dictionaries are modelled as sequences of  *)
(* [k, v] entries in insertion order (the iteration order of dict in       *)
(* Python 3.7+), so that max(stats, key=stats.get), which returns the      *)
(* first maximal key in iteration order, is computed as the interpreter    *)
(* computes it.  Division is Python 3 true division: the threshold is      *)
(* kept as a fraction thrNum / thrDen.                                     *)
(***************************************************************************)
EXTENDS Integers, Sequences, FiniteSets, TLC

VARIABLES
    mode,           \* "char" | "mac" (--morph-as-char) | "aware" (--morph-aware)
    delimiter,      \* args.delimiter, as a sequence of characters
    symbols,        \* args.symbols
    corpus,         \* the Counter get_vocabulary returns: [raw, freq] in insertion order
    min_frequency,  \* args.min_frequency
    sorted_vocab,   \* sequence of [word, freq]
    stats,          \* Working Statistics: ordered dict pair -> int
    big_stats,      \* Full Statistics: ordered dict pair -> int
    indices,        \* ordered dict pair -> (ordered dict word index -> int)
    thrNum, thrDen, \* threshold = thrNum / thrDen
    i,              \* loop counter of "for i in range(args.symbols)"
    most_frequent,  \* the selected pair
    changes,        \* result of replace_pair, consumed by update_pair_statistics
    rules,          \* the pairs written to args.output, in order
    pc,             \* position in the main loop
    full_stats,     \* history: the statistics as updated by the same calls, never pruned
    pruned,         \* history: the pairs prune_stats has deleted from stats so far
    log,            \* history: per emitted rule, its frequency when selected
    stopped         \* history: the loop was left through the break of line 273

vars == <<mode, delimiter, symbols, min_frequency, corpus, sorted_vocab, stats, big_stats,
          indices, thrNum, thrDen, i, most_frequent, changes, rules, pc,
          full_stats, pruned, log, stopped>>

(***************************************************************************)
(* Bounds of the model and constants of the program.                       *)
(***************************************************************************)
MaxWords == 3
MaxSymbols == 3
MaxExampleSymbols == 24

ZipfDivisor == 10
ThresholdDamping == 10000
PruneInterval == 100

EndOfWord == "</w>"
Boundary == "=="

(***************************************************************************)
(* Python dict, in insertion order.                                        *)
(***************************************************************************)
Has(d, key) == \E n \in 1..Len(d) : d[n].k = key

Get(d, key) ==
    IF Has(d, key) THEN d[CHOOSE n \in 1..Len(d) : d[n].k = key].v ELSE 0

GetDict(d, key) ==
    IF Has(d, key) THEN d[CHOOSE n \in 1..Len(d) : d[n].k = key].v ELSE <<>>

Put(d, key, val) ==
    IF Has(d, key)
    THEN LET at == CHOOSE n \in 1..Len(d) : d[n].k = key
         IN SubSeq(d, 1, at - 1) \o <<[k |-> key, v |-> val]>> \o SubSeq(d, at + 1, Len(d))
    ELSE Append(d, [k |-> key, v |-> val])

Add(d, key, x) == Put(d, key, Get(d, key) + x)

Del(d, key) == SelectSeq(d, LAMBDA e : e.k # key)

Keys(d) == {d[n].k : n \in 1..Len(d)}

\* a selection that ignores the counts: the first key of the dict
FirstKey(d) == d[1].k

\* max(d, key=d.get): the first key, in iteration order, whose value is maximal
FirstMax(d) ==
    d[CHOOSE n \in 1..Len(d) :
        /\ \A m \in 1..Len(d) : d[m].v <= d[n].v
        /\ \A m \in 1..(n - 1) : d[m].v < d[n].v].k

MaxValue(d) == Get(d, FirstMax(d))

(***************************************************************************)
(* Vocabulary construction (lines 243-252).  A raw word is a sequence of   *)
(* one-character strings.                                                  *)
(***************************************************************************)
RECURSIVE Join(_)
\* ''.join(chars): the string made of the characters
Join(chars) == IF chars = <<>> THEN "" ELSE Head(chars) \o Join(Tail(chars))

\* str.find(sep, from): the first position >= from where sep occurs, 0 if none
Find(s, sep, from) ==
    LET hits == {p \in from..(Len(s) - Len(sep) + 1) : SubSeq(s, p, p + Len(sep) - 1) = sep}
    IN IF hits = {} THEN 0 ELSE CHOOSE p \in hits : \A q \in hits : p <= q

RECURSIVE SplitStr(_, _)
\* x.split(args.delimiter): the pieces between the occurrences of the delimiter
SplitStr(s, sep) ==
    LET p == Find(s, sep, 1)
    IN IF p = 0 THEN <<s>>
       ELSE <<SubSeq(s, 1, p - 1)>> \o SplitStr(SubSeq(s, p + Len(sep), Len(s)), sep)

RECURSIVE Interleave(_, _)
\* reduce(lambda t1, t2: t1 + (args.delimiter,) + t2, map(tuple, pieces))
Interleave(pieces, sep) ==
    IF Len(pieces) = 1 THEN Head(pieces)
    ELSE Head(pieces) \o <<Join(sep)>> \o Interleave(Tail(pieces), sep)

\* the symbol tuple of a word in the three tokenization modes (lines 244-251)
Tokenize(raw, m, sep) ==
    IF m = "mac"
    THEN LET pieces == SplitStr(raw, sep)
         IN [n \in 1..Len(pieces) |-> Join(pieces[n])] \o <<EndOfWord>>
    ELSE IF m = "aware"
    THEN Interleave(SplitStr(raw, sep), sep) \o <<EndOfWord>>
    ELSE raw \o <<EndOfWord>>

RECURSIVE SortedByFreq(_)
\* sorted(vocab.items(), key=lambda x: x[1], reverse=True): stable, descending
SortedByFreq(items) ==
    IF items = <<>> THEN <<>>
    ELSE LET rest == SortedByFreq(SubSeq(items, 1, Len(items) - 1))
             e == items[Len(items)]
             before == SelectSeq(rest, LAMBDA x : x.freq >= e.freq)
             after == SelectSeq(rest, LAMBDA x : x.freq < e.freq)
         IN before \o <<e>> \o after

\* lines 243-252: items is the Counter's items, [raw, freq], in insertion order
BuildVocabulary(items, m, sep) ==
    SortedByFreq([n \in 1..Len(items) |->
                    [word |-> Tokenize(items[n].raw, m, sep), freq |-> items[n].freq]])

(***************************************************************************)
(* get_pair_statistics (lines 173-190).  Word indices are positions in     *)
(* sorted_vocab, counted from 1 here and from 0 in the source.             *)
(***************************************************************************)
Count(seq, x) == Cardinality({n \in 1..Len(seq) : seq[n] = x})

Contains(seq, x) == \E n \in 1..Len(seq) : seq[n] = x

RECURSIVE split_tuple(_, _)
split_tuple(tpl, delim) ==
    IF ~Contains(tpl, delim) THEN <<tpl>>
    ELSE LET p == CHOOSE n \in 1..Len(tpl) :
                      tpl[n] = delim /\ \A m \in 1..(n - 1) : tpl[m] # delim
         IN <<SubSeq(tpl, 1, p - 1)>> \o split_tuple(SubSeq(tpl, p + 1, Len(tpl)), delim)

\* the adjacent pairs of one morpheme, left to right
AdjacentPairs(morpheme) == [n \in 1..(Len(morpheme) - 1) |-> <<morpheme[n], morpheme[n + 1]>>]

RECURSIVE Flatten(_)
Flatten(seqs) == IF seqs = <<>> THEN <<>> ELSE Head(seqs) \o Flatten(Tail(seqs))

\* the pairs get_pair_statistics counts in one word, in counting order
CountedPairs(word) ==
    LET spans == split_tuple(word, Boundary)
    IN Flatten([n \in 1..Len(spans) |-> AdjacentPairs(spans[n])])

\* morpheme[0] of an empty morpheme raises IndexError (line 184)
RaisesIndexError(word) ==
    LET spans == split_tuple(word, Boundary)
    IN \E n \in 1..Len(spans) : spans[n] = <<>>

\* one update "stats[p] += d * f; indices[p][j] += d"
Delta(p, j, d, f) == [p |-> p, j |-> j, d |-> d, f |-> f]

RECURSIVE ApplyStats(_, _)
\* the updates are applied one after the other: s1 is the dict after the first
\* one, never empty, and is evaluated before the remaining ones are applied
ApplyStats(s, deltas) ==
    IF deltas = <<>> THEN s
    ELSE LET s1 == Add(s, Head(deltas).p, Head(deltas).d * Head(deltas).f)
         IN IF s1 = <<>> THEN s1 ELSE ApplyStats(s1, Tail(deltas))

RECURSIVE ApplyIndices(_, _)
ApplyIndices(x, deltas) ==
    IF deltas = <<>> THEN x
    ELSE LET e == Head(deltas)
             x1 == Put(x, e.p, Add(GetDict(x, e.p), e.j, e.d))
         IN IF x1 = <<>> THEN x1 ELSE ApplyIndices(x1, Tail(deltas))

\* lines 182-188 as the sequence of updates they perform
CountDeltas(vocab) ==
    Flatten([j \in 1..Len(vocab) |->
               LET ps == CountedPairs(vocab[j].word)
               IN [n \in 1..Len(ps) |-> Delta(ps[n], j, 1, vocab[j].freq)]])

\* the stats dict get_pair_statistics builds
CountStats(vocab) == ApplyStats(<<>>, CountDeltas(vocab))

\* the indices dict get_pair_statistics builds
CountIndices(vocab) == ApplyIndices(<<>>, CountDeltas(vocab))

get_pair_statistics(vocab) == [stats |-> CountStats(vocab), indices |-> CountIndices(vocab)]

\* the true frequency of a pair: its count in a full recount of the vocabulary
TrueFreq(vocab, p) == Get(CountStats(vocab), p)

\* the largest true frequency of any pair of the vocabulary (0 when there is none)
MaxTrueFreq(vocab) ==
    LET s == CountStats(vocab)
    IN IF s = <<>> THEN 0 ELSE MaxValue(s)

(***************************************************************************)
(* replace_pair (lines 193-219).                                           *)
(***************************************************************************)
RECURSIVE Substitute(_, _, _)
\* pattern.sub on ' '.join(word), then split(): the occurrences of the two
\* symbols as whole adjacent tokens, left to right without overlap, become
\* the single token first + second
Substitute(word, first, second) ==
    IF word = <<>> THEN <<>>
    ELSE IF Len(word) >= 2 /\ word[1] = first /\ word[2] = second
    THEN <<first \o second>> \o Substitute(SubSeq(word, 3, Len(word)), first, second)
    ELSE <<Head(word)>> \o Substitute(Tail(word), first, second)

\* lines 208-214: the rewritten word, with every '==' dropped when the count test holds
NewWord(word, pair) ==
    LET new_word_tpl == Substitute(word, pair[1], pair[2])
    IN IF Len(new_word_tpl) - 2 * Count(new_word_tpl, Boundary) - 1 = 0
       THEN SelectSeq(new_word_tpl, LAMBDA t : t # Boundary)
       ELSE new_word_tpl

\* the entries of indices[pair] the loop of line 204 does not skip, in iteration order
Flagged(pair, x) == SelectSeq(GetDict(x, pair), LAMBDA e : e.v >= 1)

\* the list replace_pair returns: (j, new word, old word, freq) per rewritten entry
Changes(pair, vocab, x) ==
    LET fl == Flagged(pair, x)
    IN [n \in 1..Len(fl) |->
          [j |-> fl[n].k, word |-> NewWord(vocab[fl[n].k].word, pair),
           old_word |-> vocab[fl[n].k].word, freq |-> vocab[fl[n].k].freq]]

\* the vocabulary after replace_pair (line 216)
replace_pair(pair, vocab, x) ==
    LET fl == Flagged(pair, x)
    IN [j \in 1..Len(vocab) |->
          IF \E n \in 1..Len(fl) : fl[n].k = j
          THEN [word |-> NewWord(vocab[j].word, pair), freq |-> vocab[j].freq]
          ELSE vocab[j]]

(***************************************************************************)
(* update_pair_statistics (lines 80-154), as the sequence of updates it    *)
(* performs on stats and indices.  Positions are counted from 1.           *)
(***************************************************************************)
\* "'==' not in prev": neither symbol of the pair is the boundary symbol
NoBoundary(p) == p[1] # Boundary /\ p[2] # Boundary

\* lines 107-111: every adjacent pair of the collapsed word is added
CollapseDeltas(c) ==
    [n \in 1..(Len(c.word) - 1) |-> Delta(<<c.word[n], c.word[n + 1]>>, c.j, 1, c.freq)]

RECURSIVE OldDeltas(_, _, _, _)
\* lines 114-135: around every occurrence of the pair in old_word, from position p on
OldDeltas(c, first, second, p) ==
    LET w == c.old_word
        hits == {q \in p..Len(w) : w[q] = first}
    IN IF hits = {} THEN <<>>
       ELSE LET q == CHOOSE h \in hits : \A g \in hits : h <= g
            IN IF q < Len(w) /\ w[q + 1] = second
               THEN LET prev == <<w[q - 1], w[q]>>
                        nex == <<w[q + 1], w[q + 2]>>
                        dprev == IF q > 1 /\ NoBoundary(prev)
                                 THEN <<Delta(prev, c.j, -1, c.freq)>> ELSE <<>>
                        dnex == IF /\ q + 2 <= Len(w)
                                   /\ (w[q + 2] # first \/ q + 3 > Len(w) \/ w[q + 3] # second)
                                   /\ NoBoundary(nex)
                                THEN <<Delta(nex, c.j, -1, c.freq)>> ELSE <<>>
                    IN dprev \o dnex \o OldDeltas(c, first, second, q + 2)
               ELSE OldDeltas(c, first, second, q + 1)

RECURSIVE NewDeltas(_, _, _)
\* lines 137-154: around every occurrence of the new symbol in word, from position p on
NewDeltas(c, new_pair, p) ==
    LET w == c.word
        hits == {q \in p..Len(w) : w[q] = new_pair}
    IN IF hits = {} THEN <<>>
       ELSE LET q == CHOOSE h \in hits : \A g \in hits : h <= g
                prev == <<w[q - 1], w[q]>>
                nex == <<w[q], w[q + 1]>>
                dprev == IF q > 1 /\ NoBoundary(prev)
                         THEN <<Delta(prev, c.j, 1, c.freq)>> ELSE <<>>
                dnex == IF q < Len(w) /\ w[q + 1] # new_pair /\ NoBoundary(nex)
                        THEN <<Delta(nex, c.j, 1, c.freq)>> ELSE <<>>
            IN dprev \o dnex \o NewDeltas(c, new_pair, q + 1)

\* lines 92-154 for one changed word
WordDeltas(c, pair) ==
    IF Contains(c.old_word, Boundary) /\ ~Contains(c.word, Boundary)
    THEN CollapseDeltas(c)
    ELSE OldDeltas(c, pair[1], pair[2], 1) \o NewDeltas(c, pair[1] \o pair[2], 1)

\* lines 90-154 for the whole list of changes
UpdateDeltas(pair, chg) == Flatten([n \in 1..Len(chg) |-> WordDeltas(chg[n], pair)])

\* update_pair_statistics on stats: line 86, then the updates
UpdateStats(pair, chg, s) == ApplyStats(Put(s, pair, 0), UpdateDeltas(pair, chg))

\* update_pair_statistics on indices: line 87, then the updates
UpdateIndices(pair, chg, x) == ApplyIndices(Put(x, pair, <<>>), UpdateDeltas(pair, chg))

(***************************************************************************)
(* prune_stats (lines 222-235).  The threshold is the fraction num / den.  *)
(***************************************************************************)
\* freq < threshold
Below(freq, num, den) == freq * den < num

\* stats after prune_stats: the items below the threshold are deleted (line 231)
PruneStats(s, num, den) == SelectSeq(s, LAMBDA e : ~Below(e.v, num, den))

\* the pairs prune_stats deletes
PrunedKeys(s, num, den) == {s[n].k : n \in {m \in 1..Len(s) : Below(s[m].v, num, den)}}

RECURSIVE PruneBigEager(_, _, _, _)
\* a prune_stats that copies every item of stats to big_stats, pruned or not
PruneBigEager(s, big, num, den) ==
    IF s = <<>> THEN big
    ELSE LET e == Head(s)
             big1 == IF e.v < 0 /\ Below(e.v, num, den) THEN Add(big, e.k, e.v)
                     ELSE Put(big, e.k, e.v)
         IN IF big1 = <<>> THEN PruneBigEager(Tail(s), <<>>, num, den)
            ELSE PruneBigEager(Tail(s), big1, num, den)

RECURSIVE PruneBig(_, _, _, _)
\* big_stats after prune_stats (lines 232-235), items taken in the order of stats
PruneBig(s, big, num, den) ==
    IF s = <<>> THEN big
    ELSE LET e == Head(s)
             big1 == IF ~Below(e.v, num, den) THEN big
                     ELSE IF e.v < 0 THEN Add(big, e.k, e.v)
                     ELSE Put(big, e.k, e.v)
         IN IF big1 = <<>> THEN PruneBig(Tail(s), <<>>, num, den)
            ELSE PruneBig(Tail(s), big1, num, den)

(***************************************************************************)
(* The inputs: corpora drawn from a pool of raw words, the three modes,    *)
(* two delimiters, symbol budgets and minimum frequencies.                 *)
(***************************************************************************)
DefaultDelimiter == <<"=", "=">>
PlusDelimiter == <<"+">>

Pool ==
    << <<"c", "d">>,
       <<"a", "=", "=", "b", "=", "=", "c", "d">>,
       <<"b", "a", "b">>,
       <<"a", "=", "=", "b", "=", "=", "a", "b">>,
       <<"a", "+", "b">>,
       <<"a", "a", "a">>,
       <<"=", "=", "=", "a", "=", "=">> >>

Freqs == {1, 11}

MinFreqs == {1, 2}

Modes == {"char", "mac", "aware"}

Delimiters(m) == IF m = "char" THEN {DefaultDelimiter} ELSE {DefaultDelimiter, PlusDelimiter}

\* the Counter of the words chosen from the pool, in pool order
CorpusOf(chosen, f) ==
    LET idx == SelectSeq([n \in 1..Len(Pool) |-> n], LAMBDA n : n \in chosen)
    IN [n \in 1..Len(idx) |-> [raw |-> Pool[idx[n]], freq |-> f[idx[n]]]]

\* no morpheme of the word is empty (character mode has no morphemes)
WellFormed(raw, m, sep) ==
    IF m = "char" THEN TRUE
    ELSE \A n \in 1..Len(SplitStr(raw, sep)) : SplitStr(raw, sep)[n] # <<>>

ExampleCorpus ==
    << [raw |-> <<"l", "o", "w">>, freq |-> 1],
       [raw |-> <<"l", "o", "w", "e", "r">>, freq |-> 1],
       [raw |-> <<"l", "o", "w", "e", "s", "t">>, freq |-> 1],
       [raw |-> <<"n", "e", "w", "e", "s", "t">>, freq |-> 1],
       [raw |-> <<"w", "i", "d", "e", "s", "t">>, freq |-> 1] >>

(***************************************************************************)
(* The main program (lines 238-282).                                       *)
(***************************************************************************)
\* reading d[key] of a defaultdict inserts the default when the key is missing
Touch(d, key, default) == IF Has(d, key) THEN d ELSE Append(d, [k |-> key, v |-> default])

\* lines 243-257: the state when the loop is entered
Start(items, m, sep, budgets, floors) ==
    LET sv == BuildVocabulary(items, m, sep)
        st == get_pair_statistics(sv)
    IN /\ \A n \in 1..Len(items) : WellFormed(items[n].raw, m, sep)
       /\ \A n \in 1..Len(sv) : ~RaisesIndexError(sv[n].word)
       /\ st.stats # <<>>
       /\ mode = m
       /\ delimiter = sep
       /\ corpus = items
       /\ sorted_vocab = sv
       /\ stats = st.stats
       /\ indices = st.indices
       /\ big_stats = st.stats
       /\ thrNum = MaxValue(st.stats)
       /\ thrDen = ZipfDivisor
       /\ i = 0
       /\ most_frequent = <<>>
       /\ changes = <<>>
       /\ rules = <<>>
       /\ pc = "select"
       /\ full_stats = st.stats
       /\ pruned = {}
       /\ log = <<>>
       /\ stopped = FALSE
       /\ symbols \in budgets
       /\ min_frequency \in floors

Init ==
    \E chosen \in SUBSET (1..Len(Pool)) :
        /\ Cardinality(chosen) \in 1..MaxWords
        /\ \E f \in [chosen -> Freqs], m \in Modes :
               \E sep \in Delimiters(m) :
                   Start(CorpusOf(chosen, f), m, sep, 1..MaxSymbols, MinFreqs)

InitExample ==
    Start(ExampleCorpus, "char", DefaultDelimiter, 0..MaxExampleSymbols, MinFreqs)

\* line 263: "not stats or (i and stats[most_frequent] < threshold)"
NeedsRepair(s, mf, n, num, den) == s = <<>> \/ (n # 0 /\ Below(Get(s, mf), num, den))

\* a loop that runs one iteration more than range(args.symbols)
LoopContinuesInclusive(n, budget) == n <= budget

\* line 258: "for i in range(args.symbols)" has a next value
LoopContinues(n, budget) == n < budget

\* lines 258-263: next iteration, selection from the working statistics
Select ==
    /\ pc = "select"
    /\ LoopContinues(i, symbols)
    /\ LET mf == IF stats # <<>> THEN FirstMax(stats) ELSE most_frequent
       IN /\ most_frequent' = mf
          /\ pc' = IF NeedsRepair(stats, mf, i, thrNum, thrDen) THEN "repair" ELSE "check"
    /\ UNCHANGED <<mode, delimiter, symbols, min_frequency, corpus, sorted_vocab, stats,
                   big_stats, indices, thrNum, thrDen, i, changes, rules, full_stats, pruned,
                   log, stopped>>

\* lines 264-269: go back to the full statistics
Repair ==
    /\ pc = "repair"
    /\ LET big1 == PruneBig(stats, big_stats, thrNum, thrDen)
           mf == FirstMax(big1)
           num == Get(big1, mf) * i
           den == i + ThresholdDamping
       IN /\ most_frequent' = mf
          /\ thrNum' = num
          /\ thrDen' = den
          /\ stats' = PruneStats(big1, num, den)
          /\ big_stats' = PruneBig(big1, big1, num, den)
          /\ pruned' = pruned \cup PrunedKeys(stats, thrNum, thrDen) \cup PrunedKeys(big1, num, den)
    /\ pc' = "check"
    /\ UNCHANGED <<mode, delimiter, symbols, min_frequency, corpus, sorted_vocab, indices, i,
                   changes, rules, full_stats, log, stopped>>

\* line 271: "stats[most_frequent] < args.min_frequency"
BelowFloor == Get(stats, most_frequent) < min_frequency

\* lines 271-273: no pair reaches the minimum frequency
Stop ==
    /\ pc = "check"
    /\ BelowFloor
    /\ stats' = Touch(stats, most_frequent, 0)
    /\ stopped' = TRUE
    /\ pc' = "done"
    /\ UNCHANGED <<mode, delimiter, symbols, min_frequency, corpus, sorted_vocab, big_stats,
                   indices, thrNum, thrDen, i, most_frequent, changes, rules, full_stats,
                   pruned, log>>

\* lines 275-278: the rule is written and replace_pair rewrites the vocabulary
Emit ==
    /\ pc = "check"
    /\ ~BelowFloor
    /\ rules' = Append(rules, most_frequent)
    /\ log' = Append(log, [shown |-> Get(stats, most_frequent),
                           exact |-> TrueFreq(sorted_vocab, most_frequent)])
    /\ changes' = Changes(most_frequent, sorted_vocab, indices)
    /\ sorted_vocab' = replace_pair(most_frequent, sorted_vocab, indices)
    /\ stats' = Touch(stats, most_frequent, 0)
    /\ indices' = Touch(indices, most_frequent, <<>>)
    /\ pc' = "update"
    /\ UNCHANGED <<mode, delimiter, symbols, min_frequency, corpus, big_stats, thrNum, thrDen,
                   i, most_frequent, full_stats, pruned, stopped>>

\* line 281: "not i % 100"
PruneDue(n) == n % PruneInterval = 0

\* lines 279-280: update_pair_statistics and the reset of the merged pair
Update ==
    /\ pc = "update"
    /\ stats' = Put(UpdateStats(most_frequent, changes, stats), most_frequent, 0)
    /\ indices' = UpdateIndices(most_frequent, changes, indices)
    /\ full_stats' = Put(UpdateStats(most_frequent, changes, full_stats), most_frequent, 0)
    /\ changes' = <<>>
    /\ IF PruneDue(i) THEN pc' = "prune" /\ i' = i ELSE pc' = "select" /\ i' = i + 1
    /\ UNCHANGED <<mode, delimiter, symbols, min_frequency, corpus, sorted_vocab, big_stats,
                   thrNum, thrDen, most_frequent, rules, pruned, log, stopped>>

\* lines 281-282: the periodic prune_stats
Prune ==
    /\ pc = "prune"
    /\ stats' = PruneStats(stats, thrNum, thrDen)
    /\ big_stats' = PruneBig(stats, big_stats, thrNum, thrDen)
    /\ pruned' = pruned \cup PrunedKeys(stats, thrNum, thrDen)
    /\ i' = i + 1
    /\ pc' = "select"
    /\ UNCHANGED <<mode, delimiter, symbols, min_frequency, corpus, sorted_vocab, indices,
                   thrNum, thrDen, most_frequent, changes, rules, full_stats, log, stopped>>

\* line 258: range(args.symbols) is exhausted
Finish ==
    /\ pc = "select"
    /\ ~LoopContinues(i, symbols)
    /\ pc' = "done"
    /\ UNCHANGED <<mode, delimiter, symbols, min_frequency, corpus, sorted_vocab, stats,
                   big_stats, indices, thrNum, thrDen, i, most_frequent, changes, rules,
                   full_stats, pruned, log, stopped>>

Next == Select \/ Repair \/ Stop \/ Emit \/ Update \/ Prune \/ Finish

Spec == Init /\ [][Next]_vars

SpecExample == InitExample /\ [][Next]_vars

(***************************************************************************)
(* The properties.                                                         *)
(***************************************************************************)
\* every pair some table or the current vocabulary knows
AllPairs == Keys(stats) \cup Keys(big_stats) \cup Keys(CountStats(sorted_vocab))

\* the loop is between two iterations, or has ended, after at least one merge
AfterIteration == (pc = "select" /\ i >= 1) \/ (pc = "done" /\ rules # <<>>)

\* the statistics of the vocabulary the loop started from
InitialStats == CountStats(BuildVocabulary(corpus, mode, delimiter))

\* every span between boundary symbols d holds exactly one symbol
FullyMerged(word, d) ==
    \A n \in 1..Len(split_tuple(word, d)) : Len(split_tuple(word, d)[n]) = 1

\* C1: whenever a rule is about to be emitted, the selected pair has the largest
\* true frequency (full recount) among the pairs of the current vocabulary.
C1_EmittedPairIsMostFrequent ==
    (pc = "check" /\ ~BelowFloor) =>
        TrueFreq(sorted_vocab, most_frequent) = MaxTrueFreq(sorted_vocab)

\* C2: after every merge step, the working statistics of every pair that has
\* not been pruned equal the full recount over the current vocabulary.
C2_WorkingStatsMatchRecount ==
    AfterIteration =>
        \A p \in AllPairs \ pruned : Get(stats, p) = TrueFreq(sorted_vocab, p)

\* C3: pruning never changes the output: at every step the loop stops exactly
\* when the loop without pruning would stop, and otherwise selects the pair the
\* loop without pruning selects (first maximum of the unpruned statistics).
C3_PruningKeepsRuleList ==
    pc = "check" =>
        LET ref == FirstMax(full_stats)
        IN /\ BelowFloor = (Get(full_stats, ref) < min_frequency)
           /\ ~BelowFloor => most_frequent = ref

\* C4: the exact frequency of rule k when selected is at least the exact
\* frequency of rule k + 1 when selected.
C4_FrequenciesNeverIncrease ==
    \A k \in 1..(Len(log) - 1) : log[k].exact >= log[k + 1].exact

C6_RuleCountWithinBudget ==
    /\ Len(rules) <= symbols
    /\ (pc = "done" /\ ~stopped) => Len(rules) = symbols

\* C6 witness: a run of at least two iterations that used up its budget.
C6_BudgetUsedUp == pc = "done" /\ ~stopped /\ symbols >= 2 /\ Len(rules) = symbols

\* C7: when the loop stops early, no pair of the current vocabulary has a true
\* frequency of at least the minimum frequency.
C7_EarlyStopMeansNoPairMeetsFloor ==
    stopped => MaxTrueFreq(sorted_vocab) < min_frequency

\* C8: in morph-aware mode, a word entry whose morpheme spans are each a single
\* symbol holds no boundary-delimiter symbol.
C8_FullyMergedWordHasNoBoundary ==
    mode = "aware" =>
        \A n \in 1..Len(sorted_vocab) :
            FullyMerged(sorted_vocab[n].word, Join(delimiter)) =>
                Count(sorted_vocab[n].word, Join(delimiter)) = 0

\* C9: on low, lower, lowest, newest, widest (frequency 1 each), character
\* mode, 3 symbols, minimum frequency 2, exactly 3 rules are emitted and the
\* first has frequency 3, the largest pair frequency of the initial vocabulary.
C9_ExampleEmitsThreeRules ==
    (/\ corpus = ExampleCorpus /\ mode = "char"
     /\ symbols = 3 /\ min_frequency = 2 /\ pc = "done") =>
        /\ Len(rules) = 3
        /\ log[1].shown = 3
        /\ log[1].exact = 3
        /\ MaxTrueFreq(BuildVocabulary(corpus, mode, delimiter)) = 3

\* C9 witness: the example run has ended with three rules.
C9_ExampleRunEnded ==
    /\ corpus = ExampleCorpus /\ mode = "char"
    /\ symbols = 3 /\ min_frequency = 2 /\ pc = "done" /\ Len(rules) = 3

\* C11: at every iteration boundary, indices[p][j] is positive exactly when p is
\* a counted adjacent pair of word entry j (as a full recount finds it).
C11_IndexPositiveIffPairInWord ==
    pc = "select" =>
        LET recount == CountIndices(sorted_vocab)
        IN \A p \in Keys(indices) \cup Keys(recount) :
               \A j \in 1..Len(sorted_vocab) :
                   (Get(GetDict(indices, p), j) > 0) = (Get(GetDict(recount, p), j) > 0)

\* the symbol first is immediately followed by the symbol second in the word
Adjacent(word, first, second) ==
    \E n \in 1..(Len(word) - 1) : word[n] = first /\ word[n + 1] = second

\* the symbols of the word that are not the boundary symbol, in order
WithoutBoundary(word) == SelectSeq(word, LAMBDA t : t # Boundary)

\* C12: right after the merge of (L, R) is applied no word entry holds L
\* immediately followed by R, and each rewritten entry is its old word with the
\* non-overlapping occurrences of (L, R) replaced left to right by L+R (boundary
\* symbols removed by a collapse aside).
C12_NoOccurrenceLeftAfterMerge ==
    pc = "update" =>
        /\ \A j \in 1..Len(sorted_vocab) :
               ~Adjacent(sorted_vocab[j].word, most_frequent[1], most_frequent[2])
        /\ \A n \in 1..Len(changes) :
               /\ sorted_vocab[changes[n].j].word = changes[n].word
               /\ WithoutBoundary(changes[n].word) =
                      WithoutBoundary(Substitute(changes[n].old_word,
                                                 most_frequent[1], most_frequent[2]))

\* C13: no pair appears twice in the rule list, and a pair that has been merged
\* is never again a counted pair of a word entry at a later iteration boundary.
C13_MergedPairNeverRecurs ==
    /\ \A m, n \in 1..Len(rules) : m # n => rules[m] # rules[n]
    /\ pc = "select" =>
           \A n \in 1..Len(rules) : TrueFreq(sorted_vocab, rules[n]) = 0

\* the pair has the configured delimiter symbol on its left or on its right
StraddlesDelimiter(p) == p[1] = Join(delimiter) \/ p[2] = Join(delimiter)

\* C14: in morph-aware mode, whatever the configured delimiter, no pair with the
\* delimiter symbol on either side has a count in stats or is emitted as a rule.
C14_DelimiterPairsNeverCounted ==
    mode = "aware" =>
        /\ \A p \in Keys(stats) : StraddlesDelimiter(p) => Get(stats, p) = 0
        /\ \A n \in 1..Len(rules) : ~StraddlesDelimiter(rules[n])

\* the vocabulary the loop started from
InitialVocab == BuildVocabulary(corpus, mode, delimiter)

\* C15: in character mode and in morph-as-char mode no symbol is ever removed
\* from an entry (its symbols still spell the original word and the end-of-word
\* marker), and at every iteration boundary every adjacent pair of every entry
\* is a counted pair with a positive index count.
C15_SingleSpanOutsideMorphAware ==
    mode \in {"char", "mac"} =>
        \A j \in 1..Len(sorted_vocab) :
            LET word == sorted_vocab[j].word
            IN /\ Join(word) = Join(InitialVocab[j].word)
               /\ pc = "select" =>
                      /\ CountedPairs(word) = AdjacentPairs(word)
                      /\ \A n \in 1..(Len(word) - 1) :
                             Get(GetDict(indices, <<word[n], word[n + 1]>>), j) > 0

\* the text an entry spells: its symbols joined, the delimiter symbols of
\* morph-aware mode left out
Text(word) ==
    IF mode = "aware"
    THEN Join(SelectSeq(word, LAMBDA t : t # Join(delimiter)))
    ELSE Join(word)

\* C16: the vocabulary keeps its entries, at the same indices with the same
\* frequencies, every entry keeps spelling its original word followed by the
\* end-of-word marker, and a merge leaves an entry without the merged pair as it was.
C16_EntriesKeepIdentityAndText ==
    /\ Len(sorted_vocab) = Len(InitialVocab)
    /\ \A j \in 1..Len(sorted_vocab) :
           /\ sorted_vocab[j].freq = InitialVocab[j].freq
           /\ Text(sorted_vocab[j].word) = Text(InitialVocab[j].word)
    /\ pc = "update" =>
           \A n \in 1..Len(changes) :
               ~Adjacent(changes[n].old_word, most_frequent[1], most_frequent[2])
                   => changes[n].word = changes[n].old_word

====
